---- MODULE Spec2Model ----
(***************************************************************************)
(* Model of MICASE_XML_Parser.py: the script lists the folder 'XMLs', and  *)
(* for every regular file parses the XML (ET.parse), opens a fresh text    *)
(* file and walks the children of BODY with process_utterance, which       *)
(* writes one block per text fragment through write.                       *)
(*                                                                         *)
(* Python values that may be None are encoded as sequences of length <= 1: *)
(* None is <<>> and a value v is <<v>>.  Element text and tail are strings *)
(* of characters; a character is a natural number, 0 being the blank and   *)
(* 2n / 2n+1 the single visible character of the text / tail of node n, so *)
(* that every fragment of a document is recognisable in the output.        *)
(* An element tree is the sequence of its nodes in document order, each    *)
(* with the index of its parent (0 for a child of BODY).                   *)
(***************************************************************************)
EXTENDS Integers, Sequences, FiniteSets, TLC

VARIABLES dir, run, idx, pc, pos, utterance_id, text_type, original_doc,
          fs, stdout, calls

vars == <<dir, run, idx, pc, pos, utterance_id, text_type, original_doc,
          fs, stdout, calls>>

\* Bounds of the explored inputs.
MaxNodes == 3
MaxFiles == 3
MaxWrites == 2

None == <<>>
Py(v) == <<v>>
SP == 0

DIR == "XMLs"

\* ------------------------------------------------------------------------
\* Strings

RECURSIVE lstrip(_)
lstrip(s) == IF s = <<>> THEN s
             ELSE IF Head(s) = SP THEN lstrip(Tail(s)) ELSE s

RECURSIVE rstrip(_)
rstrip(s) == IF s = <<>> THEN s
             ELSE IF s[Len(s)] = SP THEN rstrip(SubSeq(s, 1, Len(s) - 1)) ELSE s

strip(s) == rstrip(lstrip(s))

StartsWith(s, prefix) ==
    Len(s) >= Len(prefix) /\ SubSeq(s, 1, Len(prefix)) = prefix

\* Truth value of an optional string: neither None nor "".
Truthy(t) == t # None /\ t[1] # <<>>

\* `x and x.strip()`
NonBlank(t) == Truthy(t) /\ strip(t[1]) # <<>>

\* What an f-string renders for a value: None is rendered as the word None.
Str(v) == IF v = None THEN "None" ELSE v[1]

\* Element tags, as character strings.
U_PREFIX == <<"U">>
OVERLAP_PREFIX == <<"O", "V", "E", "R", "L", "A", "P">>
FOREIGN == <<"F", "O", "R", "E", "I", "G", "N">>
TagU == <<"U", "1">>
TagOverlap == <<"O", "V", "E", "R", "L", "A", "P", "1">>
TagOther == <<"P", "A", "U", "S", "E">>
Tags == {TagU, TagOverlap, FOREIGN, TagOther}

\* ------------------------------------------------------------------------
\* write (lines 45-56): one block appended to the file when text is truthy.
\* A block is the record of its nine lines; the text is written as passed,
\* utterance_id is kept as the number whose decimal form is written.

writeAlways(output_file, text, sp_status, l1, person_id, tt, od, uid) ==
    IF text # None
    THEN Append(output_file,
                [sp_status |-> Str(sp_status), l1 |-> Str(l1),
                 person_id |-> Str(person_id), discipline |-> "NA",
                 text_type |-> Str(tt), original_doc |-> Str(od),
                 utterance_id |-> uid, sentence_id |-> "TBD",
                 text |-> text[1]])
    ELSE output_file

write(output_file, text, sp_status, l1, person_id, tt, od, uid) ==
    IF Truthy(text)
    THEN Append(output_file,
                [sp_status |-> Str(sp_status), l1 |-> Str(l1),
                 person_id |-> Str(person_id), discipline |-> "NA",
                 text_type |-> Str(tt), original_doc |-> Str(od),
                 utterance_id |-> uid, sentence_id |-> "TBD",
                 text |-> Str(text)])
    ELSE output_file

\* ------------------------------------------------------------------------
\* process_utterance (lines 58-123)

\* list(utterance): the children of node n, in document order (0: of BODY).
Children(nodes, n) ==
    SelectSeq([i \in 1..Len(nodes) |-> i], LAMBDA i : nodes[i].parent = n)

\* Lines 74-76.
PersonId(u) == u.attrib.WHO
SpStatus(u) == u.attrib.NSS
L1(u) == IF u.attrib.FLANG # None THEN u.attrib.FLANG ELSE Py("English")

\* write(...) followed by utterance_id += 1 (lines 81-82, 103-104, 113-114).
EmitNoIncrement(st, text, sp_status, l1, person_id, tt, od) ==
    [output_file |-> write(st.output_file, text, sp_status, l1, person_id,
                           tt, od, st.utterance_id),
     utterance_id |-> st.utterance_id]

Emit(st, text, sp_status, l1, person_id, tt, od) ==
    [output_file |-> write(st.output_file, text, sp_status, l1, person_id,
                           tt, od, st.utterance_id),
     utterance_id |-> st.utterance_id + 1]

\* Lines 87-90.
ChildTailDropped(child) == None

ChildTail(child) ==
    IF NonBlank(child.tail) THEN Py(strip(child.tail[1])) ELSE None

\* Lines 91-95: the list handed to the recursive call.
ParentTailOverwrite(parent_tail, child_tail, sp_status, l1, person_id, tt, od) ==
    IF parent_tail # <<>>
    THEN [parent_tail EXCEPT ![2] = child_tail]
    ELSE <<"output_file", child_tail, sp_status, l1, person_id, tt, od>>

ParentTailCopy(parent_tail, child_tail, sp_status, l1, person_id, tt, od) ==
    IF parent_tail # <<>>
    THEN Append(parent_tail, child_tail)
    ELSE <<"output_file", child_tail, sp_status, l1, person_id, tt, od>>

\* Lines 100-102.
OverlapTextOnly(child) == Py(strip(child.text[1]))

OverlapText(child) ==
    IF NonBlank(child.tail)
    THEN Py(strip(child.text[1]) \o <<SP>> \o strip(child.tail[1]))
    ELSE Py(strip(child.text[1]))

\* The branch of the if/elif chain of lines 86-111 taken for a child.
BranchForeignAsOverlap(child) ==
    IF StartsWith(child.tag, U_PREFIX) THEN "U"
    ELSE IF (StartsWith(child.tag, OVERLAP_PREFIX) \/ child.tag = FOREIGN)
            /\ NonBlank(child.text) THEN "OVERLAP"
    ELSE IF child.tag = FOREIGN THEN "FOREIGN"
    ELSE IF NonBlank(child.tail) THEN "TAIL"
    ELSE "NONE"

Branch(child) ==
    IF StartsWith(child.tag, U_PREFIX) THEN "U"
    ELSE IF StartsWith(child.tag, OVERLAP_PREFIX) /\ NonBlank(child.text)
         THEN "OVERLAP"
    ELSE IF child.tag = FOREIGN THEN "FOREIGN"
    ELSE IF NonBlank(child.tail) THEN "TAIL"
    ELSE "NONE"

\* Lines 116-120: the stored tail is written by the call that received a
\* list of exactly seven elements; parent_tail[1] is its second element.
FlushTail(st, parent_tail) ==
    IF parent_tail # <<>> /\ Truthy(parent_tail[2]) /\ Len(parent_tail) = 7
    THEN LET args == Append(parent_tail, st.utterance_id)
         IN [output_file |-> write(st.output_file, args[2], args[3], args[4],
                                   args[5], args[6], args[7], args[8]),
             utterance_id |-> st.utterance_id + 1]
    ELSE st

RECURSIVE process_utterance(_, _, _, _, _, _)

\* One iteration of the loop of line 84.
ChildStep(nodes, c, st, sp_status, l1, person_id, tt, od, parent_tail) ==
    LET child == nodes[c]
        branch == Branch(child)
    IN  CASE branch = "U" ->
               process_utterance(nodes, c, st, tt, od,
                   ParentTailCopy(parent_tail, ChildTail(child), sp_status,
                                  l1, person_id, tt, od))
          [] branch = "OVERLAP" ->
               Emit(st, OverlapText(child), sp_status, l1, person_id, tt, od)
          [] branch = "FOREIGN" -> st
          [] branch = "TAIL" ->
               Emit(st, Py(strip(child.tail[1])), sp_status, l1, person_id,
                    tt, od)
          [] OTHER -> st

RECURSIVE ChildLoop(_, _, _, _, _, _, _, _, _)
ChildLoop(nodes, kids, st, sp_status, l1, person_id, tt, od, parent_tail) ==
    IF kids = <<>> THEN st
    ELSE ChildLoop(nodes, Tail(kids),
                   ChildStep(nodes, Head(kids), st, sp_status, l1, person_id,
                             tt, od, parent_tail),
                   sp_status, l1, person_id, tt, od, parent_tail)

\* st is the pair (content of output_file, utterance_id); the result is the
\* pair after the call.
process_utterance(nodes, u, st, tt, od, parent_tail) ==
    LET utterance == nodes[u]
        person_id == PersonId(utterance)
        sp_status == SpStatus(utterance)
        l1 == L1(utterance)
        st1 == IF NonBlank(utterance.text)
               THEN Emit(st, Py(strip(utterance.text[1])), sp_status, l1,
                         person_id, tt, od)
               ELSE st
        st2 == ChildLoop(nodes, Children(nodes, u), st1, sp_status, l1,
                         person_id, tt, od, parent_tail)
    IN  FlushTail(st2, parent_tail)

\* ------------------------------------------------------------------------
\* Input documents

\* The attributes WHO, NSS and FLANG of the k-th utterance of a document of
\* the walk inputs: every utterance has its own speaker; the first one has no
\* FLANG attribute.
SpeakerNames == <<"S1", "S2", "S3", "S4", "S5", "S6">>
StatusNames == <<"NS", "NRN", "NNS", "NS2", "NRN2", "NNS2">>
LangNames == <<"L1", "EST", "SPA", "KOR", "FRA", "GER">>
NoAttrib == [WHO |-> None, NSS |-> None, FLANG |-> None]
WalkAttrib(k) ==
    [WHO |-> Py(SpeakerNames[k]), NSS |-> Py(StatusNames[k]),
     FLANG |-> IF k = 1 THEN None ELSE Py(LangNames[k])]

TextTok(n) == 2 * n
TailTok(n) == 2 * n + 1
Padded(c) == Py(<<SP, c, SP>>)
BlankStr == Py(<<SP>>)

\* Node k and its ancestors under the parent vector p.
RECURSIVE AncSelf(_, _)
AncSelf(p, k) == IF k = 0 THEN {} ELSE {k} \cup AncSelf(p, p[k])

\* The parent vectors of the trees of n nodes numbered in document order:
\* the parent of node k is BODY (0), node k-1 or an ancestor of node k-1.
RECURSIVE Shapes(_)
Shapes(n) ==
    IF n = 0 THEN {<<>>}
    ELSE UNION { { Append(p, q) :
                   q \in {0} \cup (IF n = 1 THEN {} ELSE AncSelf(p, n - 1)) } :
                 p \in Shapes(n - 1) }

\* Node k is BODY or an utterance the walk reaches: a child of BODY or of
\* a reached utterance whose tag starts with U.
RECURSIVE Visited(_, _, _)
Visited(p, tg, k) ==
    k = 0 \/ (StartsWith(tg[k], U_PREFIX) /\ Visited(p, tg, p[k]))

\* Text the parser never reads is kept fixed: the text of a FOREIGN or other
\* node and everything below a node the walk does not reach is non-blank,
\* the tail of a child of BODY is absent.
Canonical(n, p, tg, tx, tl) ==
    \A k \in 1..n :
        /\ (~(Visited(p, tg, p[k]) /\ tg[k] \in {TagU, TagOverlap})) => tx[k]
        /\ p[k] = 0 => ~tl[k]
        /\ (p[k] # 0 /\ ~Visited(p, tg, p[k])) => tl[k]

\* The tree of n nodes with parent vector p, tags tg, and a non-blank text
\* (tail) at the nodes where tx (tl) holds; elsewhere the text is `absent`,
\* which is None or a blank string.
MkTree(n, p, tg, tx, tl, absent) ==
    [k \in 1..n |->
        [parent |-> p[k], tag |-> tg[k],
         attrib |-> IF tg[k] = TagU THEN WalkAttrib(k) ELSE NoAttrib,
         text |-> IF tx[k] THEN Padded(TextTok(k)) ELSE absent,
         tail |-> IF tl[k] THEN Padded(TailTok(k)) ELSE absent]]

Doc(id, term, nodes) ==
    [wellformed |-> TRUE, ID |-> id, term |-> term, nodes |-> nodes]
Malformed == [wellformed |-> FALSE, ID |-> None, term |-> None, nodes |-> <<>>]
File(xml) == [isfile |-> TRUE, xml |-> xml]
NotAFile == [isfile |-> FALSE, xml |-> Malformed]

WalkDoc(nodes) == Doc(Py("adv700ju023"), Py(Py("ADV")), nodes)

\* Documents for the header and attribute defaults: one utterance with
\* text, every attribute and header field present or absent.
Opt(v) == {None, Py(v)}
AttrDocs ==
    { Doc(id, term,
          << [parent |-> 0, tag |-> TagU,
              attrib |-> [WHO |-> who, NSS |-> nss, FLANG |-> flang],
              text |-> Padded(TextTok(1)), tail |-> BlankStr] >>) :
      id \in Opt("adv700ju023"),
      term \in {None, Py(None), Py(Py("")), Py(Py("ADV"))},
      who \in Opt("S1"), nss \in Opt("NRN"), flang \in Opt("EST") }

\* Two small documents for the batches: "hello there" (S1) around a nested
\* utterance "hi" (S2) followed by "thanks"; and two top-level utterances.
SmallDoc1 ==
    Doc(Py("adv700ju023"), Py(Py("ADV")),
        << [parent |-> 0, tag |-> TagU, attrib |-> WalkAttrib(1),
            text |-> Padded(TextTok(1)), tail |-> BlankStr],
           [parent |-> 1, tag |-> TagU, attrib |-> WalkAttrib(2),
            text |-> Padded(TextTok(2)), tail |-> Padded(TailTok(2))] >>)
SmallDoc2 ==
    Doc(Py("col425mx075"), None,
        << [parent |-> 0, tag |-> TagU, attrib |-> WalkAttrib(1),
            text |-> Padded(TextTok(1)), tail |-> BlankStr],
           [parent |-> 0, tag |-> TagU, attrib |-> WalkAttrib(2),
            text |-> Padded(TextTok(2)), tail |-> BlankStr] >>)
BatchEntries == {File(Malformed), NotAFile, File(SmallDoc1), File(SmallDoc2)}

RECURSIVE SeqsUpTo(_, _)
SeqsUpTo(S, n) ==
    IF n = 0 THEN {<<>>}
    ELSE LET shorter == SeqsUpTo(S, n - 1)
         IN  shorter \cup { Append(s, e) : s \in shorter, e \in S }

\* The listings of the folder 'XMLs' the script is run on: one document
\* for the header and attribute defaults, or a batch of small documents.
SmallDirs == { <<File(d)>> : d \in AttrDocs }
             \cup SeqsUpTo(BatchEntries, MaxFiles)

\* ------------------------------------------------------------------------
\* The script: main (lines 156-169), run at line 172, is defined again
\* (lines 175-188) and run again at line 191.

OutputDir(r) == IF r = 1 THEN "XML_Data" ELSE "XMLs_Parsed"
\* os.path.join(output_dir, f'{filename}_Parsed.txt'); the name of a file
\* is its position in the listing.
OutputPath == <<OutputDir(run), idx + 1>>
Entry == dir[idx + 1]
Root == Entry.xml
Body == Children(Root.nodes, 0)

\* The folder holds one of the small listings, or one document with any
\* tree of at most MaxNodes nodes.
Init ==
    /\ \/ dir \in SmallDirs
       \/ \E n \in 1..MaxNodes : \E p \in Shapes(n) :
          \E tg \in [1..n -> Tags] :
          \E tx \in [1..n -> BOOLEAN] : \E tl \in [1..n -> BOOLEAN] :
          \E absent \in {None, BlankStr} :
             /\ Canonical(n, p, tg, tx, tl)
             /\ dir = <<File(WalkDoc(MkTree(n, p, tg, tx, tl, absent)))>>
    /\ run = 1
    /\ idx = 0
    /\ pc = "loop"
    /\ pos = 0
    /\ utterance_id = 0
    /\ text_type = None
    /\ original_doc = None
    /\ fs = <<>>
    /\ stdout = <<>>
    /\ calls = <<>>

\* Lines 165-168: the entry is not a regular file.
UnableToOpen ==
    /\ pc = "loop" /\ idx < Len(dir)
    /\ ~Entry.isfile
    /\ stdout' = Append(stdout, <<"Error: unable to open file", idx + 1>>)
    /\ idx' = idx + 1
    /\ UNCHANGED <<dir, run, pc, pos, utterance_id, text_type, original_doc,
                   fs, calls>>

\* Lines 132-134, 153-154: ET.parse raises ParseError.
ParseError ==
    /\ pc = "loop" /\ idx < Len(dir)
    /\ Entry.isfile /\ ~Root.wellformed
    /\ stdout' = Append(stdout, <<"Parse error in file", idx + 1>>)
    /\ idx' = idx + 1
    /\ UNCHANGED <<dir, run, pc, pos, utterance_id, text_type, original_doc,
                   fs, calls>>

\* Line 143: root.term is None when no TERM element of type SPEECHEVENT
\* is found, otherwise the text of the element (None or a string).
TextType(root) ==
    IF root.term # None /\ root.term[1] # None /\ root.term[1][1] # ""
    THEN root.term[1]
    ELSE Py("NA")

InitialId == 1

\* Lines 134-147: the tree is built, the text file is created or
\* truncated, the header is read and the count starts.
OpenOutput ==
    /\ pc = "loop" /\ idx < Len(dir)
    /\ Entry.isfile /\ Root.wellformed
    /\ fs' = [p \in DOMAIN fs \cup {OutputPath} |->
                 IF p = OutputPath THEN <<>> ELSE fs[p]]
    /\ text_type' = TextType(Root)
    /\ original_doc' = Root.ID
    /\ utterance_id' = InitialId
    /\ pos' = 0
    /\ pc' = "body"
    /\ UNCHANGED <<dir, run, idx, stdout, calls>>

\* Lines 148-150: one element of root.findall('.//BODY/*').
BodyElement ==
    /\ pc = "body" /\ pos < Len(Body)
    /\ LET u == Body[pos + 1]
           st == IF StartsWith(Root.nodes[u].tag, U_PREFIX)
                 THEN process_utterance(Root.nodes, u,
                          [output_file |-> fs[OutputPath],
                           utterance_id |-> utterance_id],
                          text_type, original_doc, None)
                 ELSE [output_file |-> fs[OutputPath],
                       utterance_id |-> utterance_id]
       IN  /\ fs' = [fs EXCEPT ![OutputPath] = st.output_file]
           /\ utterance_id' = st.utterance_id
    /\ pos' = pos + 1
    /\ UNCHANGED <<dir, run, idx, pc, text_type, original_doc, stdout, calls>>

\* Line 152, after the with block has closed the file.
CloseOutput ==
    /\ pc = "body" /\ pos = Len(Body)
    /\ stdout' = Append(stdout, <<"Created text file", OutputPath>>)
    /\ idx' = idx + 1
    /\ pc' = "loop"
    /\ UNCHANGED <<dir, run, pos, utterance_id, text_type, original_doc,
                   fs, calls>>

\* Line 169 (and 188): the loop of main is over; after the first main the
\* script runs the second one, after the second it ends.
MainDone ==
    /\ pc = "loop" /\ idx = Len(dir)
    /\ stdout' = Append(stdout, <<"Parsed text files created successfully", run>>)
    /\ IF run = 1
       THEN run' = 2 /\ idx' = 0 /\ pc' = "loop"
       ELSE run' = run /\ idx' = idx /\ pc' = "exit"
    /\ UNCHANGED <<dir, pos, utterance_id, text_type, original_doc, fs, calls>>

Next ==
    \/ UnableToOpen
    \/ ParseError
    \/ OpenOutput
    \/ BodyElement
    \/ CloseOutput
    \/ MainDone

Spec == Init /\ [][Next]_vars

\* ------------------------------------------------------------------------
\* write called on its own, with any arguments, on one sink.

SinkPath == <<"sink", 0>>
WriteTexts == {None, Py(<<>>), Py(<<SP>>), Py(<<SP, 2, SP>>), Py(<<2>>)}

InitWrite ==
    /\ dir = <<>>
    /\ run = 1
    /\ idx = 0
    /\ pc = "write"
    /\ pos = 0
    /\ utterance_id = 0
    /\ text_type = None
    /\ original_doc = None
    /\ fs = [p \in {SinkPath} |-> <<>>]
    /\ stdout = <<>>
    /\ calls = <<>>

\* calls records the arguments of the calls made so far.
CallWrite ==
    /\ pc = "write" /\ Len(calls) < MaxWrites
    /\ \E text \in WriteTexts, sp_status \in Opt("NRN"), person_id \in Opt("S1"),
          uid \in {1, 7} :
          /\ fs' = [fs EXCEPT ![SinkPath] =
                       write(@, text, sp_status, Py("English"), person_id,
                             Py("NA"), Py("adv700ju023"), uid)]
          /\ calls' = Append(calls, [text |-> text, sp_status |-> sp_status,
                                     person_id |-> person_id,
                                     utterance_id |-> uid])
    /\ UNCHANGED <<dir, run, idx, pc, pos, utterance_id, text_type,
                   original_doc, stdout>>

NextWrite == CallWrite

SpecWrite == InitWrite /\ [][NextWrite]_vars

\* ------------------------------------------------------------------------
\* Properties

\* The document a text file was written from, and the file being written.
DocOf(path) == dir[path[2]].xml
NodesOf(path) == DocOf(path).nodes
Nodes == Root.nodes
CurFile == fs[OutputPath]
\* The walk of the current document is complete (the file is about to be
\* closed).
Finished == pc = "body" /\ pos = Len(Body)

\* The visible characters of a record, and of a file in order.
Toks(r) == {r.text[i] : i \in DOMAIN r.text} \ {SP}
RECURSIVE TokSeq(_)
TokSeq(file) ==
    IF file = <<>> THEN <<>>
    ELSE SelectSeq(Head(file).text, LAMBDA c : c # SP) \o TokSeq(Tail(file))

\* The records of a file that show character c.
RecordsWith(file, c) == {i \in DOMAIN file : c \in Toks(file[i])}

\* The utterance a fragment belongs to: the node itself for the text of an
\* utterance, the parent of the node for any other text and for a tail.
Owner(nodes, c) ==
    LET n == c \div 2
    IN  IF c % 2 = 0 /\ StartsWith(nodes[n].tag, U_PREFIX) THEN n
        ELSE nodes[n].parent

\* The utterance the walk reaches: a child of BODY, or a child of a reached
\* utterance, with a tag starting with U.
RECURSIVE Reached(_, _)
Reached(nodes, k) ==
    k # 0 /\ StartsWith(nodes[k].tag, U_PREFIX)
          /\ (nodes[k].parent = 0 \/ Reached(nodes, nodes[k].parent))

RECURSIVE Ancestors(_, _)
Ancestors(nodes, k) ==
    IF nodes[k].parent = 0 THEN {}
    ELSE {nodes[k].parent} \cup Ancestors(nodes, nodes[k].parent)
Subtree(nodes, k) ==
    {k} \cup {m \in DOMAIN nodes : k \in Ancestors(nodes, m)}

\* Record r carries the speaker attributes of utterance u.
Attributed(nodes, u, r) ==
    /\ u # 0
    /\ r.person_id = Str(nodes[u].attrib.WHO)
    /\ r.sp_status = Str(nodes[u].attrib.NSS)
    /\ r.l1 = (IF nodes[u].attrib.FLANG = None THEN "English"
               ELSE nodes[u].attrib.FLANG[1])

NestedUtterancesWithTail(nodes, u) ==
    {c \in DOMAIN nodes : /\ nodes[c].parent = u
                          /\ StartsWith(nodes[c].tag, U_PREFIX)
                          /\ NonBlank(nodes[c].tail)}

\* C1: in every text file the utterance_id of the i-th block is i (1, 2,
\* ..., n without gap or repeat, from 1 again in every file), and while a
\* document is walked the counter is one more than the number of blocks
\* written, after every top-level utterance.
C1_IdsAreOneToN ==
    /\ \A path \in DOMAIN fs : \A i \in DOMAIN fs[path] :
           fs[path][i].utterance_id = i
    /\ pc = "body" => utterance_id = Len(CurFile) + 1

\* Two documents of one batch written: three blocks, then two blocks.
C1_Witness ==
    /\ pc = "exit"
    /\ dir = <<File(SmallDoc1), File(SmallDoc2)>>
    /\ Len(fs[<<"XML_Data", 1>>]) = 3
    /\ Len(fs[<<"XML_Data", 2>>]) = 2

\* The last record showing a character of the subtree of node c, 0 if none.
LastOfSubtree(file, nodes, c) ==
    LET is == {i \in DOMAIN file :
                 \E m \in Subtree(nodes, c) :
                    (TextTok(m) \in Toks(file[i])) \/
                    (m # c /\ TailTok(m) \in Toks(file[i]))}
    IN  IF is = {} THEN 0 ELSE CHOOSE i \in is : \A j \in is : j <= i

\* The tail of nested utterance c is one record, of the utterance u that
\* encloses c, right after the records of the subtree of c.
TailFollowsSubtree(file, nodes, u, c) ==
    LET rs == RecordsWith(file, TailTok(c))
    IN  /\ Cardinality(rs) = 1
        /\ \A i \in rs :
              /\ file[i].text = strip(nodes[c].tail[1])
              /\ Attributed(nodes, u, file[i])
              /\ LET last == LastOfSubtree(file, nodes, c)
                 IN  last # 0 => i = last + 1

\* C2: when a document has been walked, for every utterance P the walk
\* reaches, at any depth, and every nested utterance C of P with a
\* non-blank tail, exactly one record shows the trimmed tail of C, with the
\* attributes of P, right after the last record of the subtree of C.
C2_NestedTailAtAnyDepth ==
    Finished =>
        \A u \in DOMAIN Nodes : Reached(Nodes, u) =>
            \A c \in NestedUtterancesWithTail(Nodes, u) :
                TailFollowsSubtree(CurFile, Nodes, u, c)

\* The fragments of utterance u in reading order: its text, then for every
\* child what the child contributes (a nested utterance its own fragments,
\* an overlap span its text, any other child nothing) and the child's tail.
RECURSIVE Reading(_, _)
RECURSIVE ReadingOfChildren(_, _)
ReadingOfChildren(nodes, kids) ==
    IF kids = <<>> THEN <<>>
    ELSE LET c == Head(kids)
             own == IF StartsWith(nodes[c].tag, U_PREFIX) THEN Reading(nodes, c)
                    ELSE IF StartsWith(nodes[c].tag, OVERLAP_PREFIX)
                            /\ NonBlank(nodes[c].text) THEN <<TextTok(c)>>
                    ELSE <<>>
             tail == IF NonBlank(nodes[c].tail) THEN <<TailTok(c)>> ELSE <<>>
         IN  own \o tail \o ReadingOfChildren(nodes, Tail(kids))
Reading(nodes, u) ==
    (IF NonBlank(nodes[u].text) THEN <<TextTok(u)>> ELSE <<>>)
    \o ReadingOfChildren(nodes, Children(nodes, u))
RECURSIVE ReadingOfBody(_, _)
ReadingOfBody(nodes, elems) ==
    IF elems = <<>> THEN <<>>
    ELSE (IF StartsWith(nodes[Head(elems)].tag, U_PREFIX)
          THEN Reading(nodes, Head(elems)) ELSE <<>>)
         \o ReadingOfBody(nodes, Tail(elems))

\* C3: when a document has been walked, the texts of the records in order
\* are the non-blank fragments of the document in reading order, the
\* content of foreign spans left out.
C3_RoundTripOrder ==
    Finished => TokSeq(CurFile) = ReadingOfBody(Nodes, Body)

\* An utterance without text whose children are foreign spans with content
\* and no tail.
ForeignOnly(nodes, u) ==
    /\ StartsWith(nodes[u].tag, U_PREFIX)
    /\ ~NonBlank(nodes[u].text)
    /\ Children(nodes, u) # <<>>
    /\ \A m \in DOMAIN nodes : nodes[m].parent = u =>
          /\ nodes[m].tag = FOREIGN
          /\ NonBlank(nodes[m].text)
          /\ ~NonBlank(nodes[m].tail)

\* C4: no record of any file shows the text of a foreign span or text from
\* inside a foreign span, wherever the span is; and a document whose
\* utterances hold nothing but foreign spans with content ends with no
\* record and the counter still at 1.
C4_ForeignNeverEmitted ==
    /\ \A path \in DOMAIN fs : \A i \in DOMAIN fs[path] :
          \A c \in Toks(fs[path][i]) :
             LET n == c \div 2
             IN  /\ ~(c % 2 = 0 /\ NodesOf(path)[n].tag = FOREIGN)
                 /\ \A a \in Ancestors(NodesOf(path), n) :
                       NodesOf(path)[a].tag # FOREIGN
    /\ (Finished /\ Body # <<>>
           /\ \A k \in DOMAIN Body : ForeignOnly(Nodes, Body[k]))
       => (CurFile = <<>> /\ utterance_id = 1)

\* A walked document of one utterance that holds one foreign span.
C4_Witness ==
    /\ Finished
    /\ Len(Nodes) = 2
    /\ ForeignOnly(Nodes, 1)
    /\ Nodes[2].parent = 1
    /\ CurFile = <<>>

\* C5: after any calls of write, the sink holds one block for every call
\* whose text was non-blank after trimming and nothing for the others.
C5_BlankTextWritesNothing ==
    pc = "write" =>
        Len(fs[SinkPath]) =
            Cardinality({i \in DOMAIN calls : NonBlank(calls[i].text)})

\* The texts of the calls that passed a text other than None and "".
RECURSIVE TruthyTexts(_)
TruthyTexts(cs) ==
    IF cs = <<>> THEN <<>>
    ELSE (IF Truthy(Head(cs).text) THEN <<Head(cs).text[1]>> ELSE <<>>)
         \o TruthyTexts(Tail(cs))

\* C5 as amended: after any calls of write, the sink holds one block for
\* every call whose text was neither None nor the empty string, a text of
\* blanks included, with the text as passed, and nothing for the others.
C5_EmptyTextWritesNothing ==
    pc = "write" =>
        /\ Len(fs[SinkPath]) = Len(TruthyTexts(calls))
        /\ \A i \in DOMAIN fs[SinkPath] :
              fs[SinkPath][i].text = TruthyTexts(calls)[i]

\* write was called with None, then with a text of one blank.
C5_Witness ==
    /\ pc = "write"
    /\ Len(calls) = 2
    /\ calls[1].text = None
    /\ calls[2].text = Py(<<SP>>)
    /\ Len(fs[SinkPath]) = 1
    /\ fs[SinkPath][1].text = <<SP>>

\* C6: in every record of every file, the l1 of an utterance without FLANG
\* is English, the text_type of a document without speech-event text is
\* NA, and the sp_status / person_id of an utterance without NSS / WHO is
\* the empty string.
C6_DefaultsForMissingMetadata ==
    \A path \in DOMAIN fs : \A i \in DOMAIN fs[path] :
        \A c \in Toks(fs[path][i]) :
            LET r == fs[path][i]
                u == NodesOf(path)[Owner(NodesOf(path), c)]
                term == DocOf(path).term
            IN  /\ u.attrib.FLANG = None => r.l1 = "English"
                /\ (term = None \/ term[1] = None \/ term[1] = Py(""))
                      => r.text_type = "NA"
                /\ u.attrib.NSS = None => r.sp_status = ""
                /\ u.attrib.WHO = None => r.person_id = ""

\* C7: when a document has been walked, every overlap span with non-blank
\* text under a reached utterance is in exactly one record, with the
\* attributes of that utterance, whose text is the trimmed text of the span
\* followed by a blank and the trimmed tail when the tail is non-blank; no
\* other record shows the tail.
C7_OverlapIsOneRecord ==
    Finished =>
        \A n \in DOMAIN Nodes :
            (/\ StartsWith(Nodes[n].tag, OVERLAP_PREFIX)
             /\ NonBlank(Nodes[n].text)
             /\ Reached(Nodes, Nodes[n].parent))
            => LET rs == RecordsWith(CurFile, TextTok(n))
               IN  /\ Cardinality(rs) = 1
                   /\ RecordsWith(CurFile, TailTok(n)) \subseteq rs
                   /\ \A i \in rs :
                         /\ Attributed(Nodes, Nodes[n].parent, CurFile[i])
                         /\ CurFile[i].text =
                              strip(Nodes[n].text[1]) \o
                              (IF NonBlank(Nodes[n].tail)
                               THEN <<SP>> \o strip(Nodes[n].tail[1])
                               ELSE <<>>)

\* A walked utterance with text that holds an overlap span with text and a
\* tail: two records, the second one the span and its tail.
C7_Witness ==
    /\ Finished
    /\ Len(Nodes) = 2
    /\ Nodes[2].parent = 1
    /\ StartsWith(Nodes[2].tag, OVERLAP_PREFIX)
    /\ NonBlank(Nodes[2].text) /\ NonBlank(Nodes[2].tail)
    /\ Len(CurFile) = 2
    /\ CurFile[2].text = <<TextTok(2), SP, TailTok(2)>>

\* The number of elements of a sequence that satisfy a test.
Count(seq, Test(_)) == Cardinality({i \in DOMAIN seq : Test(seq[i])})

\* C8: when the script ends, for a folder of N files of which k are
\* malformed, N - k text files exist, N - k creations and k parse errors
\* have been reported.
C8_BatchSurvivesMalformed ==
    pc = "exit" =>
        LET N == Count(dir, LAMBDA e : e.isfile)
            k == Count(dir, LAMBDA e : e.isfile /\ ~e.xml.wellformed)
        IN  /\ Cardinality(DOMAIN fs) = N - k
            /\ Count(stdout, LAMBDA m : m[1] = "Created text file") = N - k
            /\ Count(stdout, LAMBDA m : m[1] = "Parse error in file") = k

\* C9: every record of every file carries the person_id, sp_status and l1
\* of the utterance that directly encloses each of its fragments.
C9_NoWrongSpeaker ==
    \A path \in DOMAIN fs : \A i \in DOMAIN fs[path] :
        \A c \in Toks(fs[path][i]) :
            Attributed(NodesOf(path), Owner(NodesOf(path), c), fs[path][i])

\* A walked chain of three utterances with text, the middle one followed
\* by a tail: the tail is written after the innermost text.
C9_Witness ==
    /\ Finished
    /\ Len(Nodes) = 3
    /\ Nodes[2].parent = 1 /\ Nodes[3].parent = 2
    /\ \A k \in 1..3 : Reached(Nodes, k) /\ NonBlank(Nodes[k].text)
    /\ NonBlank(Nodes[2].tail) /\ NonBlank(Nodes[3].tail)
    /\ RecordsWith(CurFile, TailTok(2)) # {}
    /\ RecordsWith(CurFile, TextTok(3)) # {}

\* C10: when a document has been walked, for a top-level utterance P with
\* several nested utterances that have a non-blank tail, every such tail is
\* exactly one record with the attributes of P, after all records of the
\* nested utterance's subtree (right after the last one) and before every
\* record of what follows that subtree in the document.
C10_SiblingTails ==
    Finished =>
        \A u \in DOMAIN Nodes :
            (/\ Nodes[u].parent = 0
             /\ StartsWith(Nodes[u].tag, U_PREFIX)
             /\ Cardinality(NestedUtterancesWithTail(Nodes, u)) >= 2)
            => \A c \in NestedUtterancesWithTail(Nodes, u) :
                  /\ TailFollowsSubtree(CurFile, Nodes, u, c)
                  /\ \A i \in RecordsWith(CurFile, TailTok(c)) :
                     \A j \in DOMAIN CurFile : \A t \in Toks(CurFile[j]) :
                        /\ (t \div 2) \in Subtree(Nodes, c) /\ t # TailTok(c)
                              => j < i
                        /\ (t \div 2) \notin Subtree(Nodes, c) /\ (t \div 2) > c
                              => j > i

\* A walked utterance with two nested utterances, all with text, both
\* followed by a tail: five records.
C10_Witness ==
    /\ Finished
    /\ Len(Nodes) = 3
    /\ Nodes[2].parent = 1 /\ Nodes[3].parent = 1
    /\ NestedUtterancesWithTail(Nodes, 1) = {2, 3}
    /\ \A k \in 1..3 : NonBlank(Nodes[k].text)
    /\ Len(CurFile) = 5

====
